---- MODULE Spec2Model ----
(***************************************************************************)
(* A model of corefsjs: the CoreVFS facade (mount table, path resolution,  *)
(* descriptor path rewriting, cross-mount rename/copy) over its backends:  *)
(* the in-memory driver in its two revisions and the IndexedDB driver.     *)
(*                                                                         *)
(* A path is a sequence of one-character strings, so that startsWith,      *)
(* slice, lastIndexOf, split and replace are computed character by         *)
(* character as the JavaScript does.  Timestamps (Date.now()) and the      *)
(* constant field parent = -1 are left out of the descriptors: no          *)
(* operation reads them.                                                   *)
(***************************************************************************)
EXTENDS Integers, Sequences, FiniteSets, TLC

VARIABLES
    mounts,     \* CoreVFS.mounts: sequence of [path, driver]
    kind,       \* kind[d]: which driver class d is an instance of
    journal,    \* journal[d]: the descriptors of backend d, in store order
    content,    \* content[d]: the content records of backend d, path -> bytes
    last,       \* the last call made and what it returned
    tasks       \* the async calls in flight, each at one of its awaits

vars == <<mounts, kind, journal, content, last, tasks>>

----------------------------------------------------------------------------
(* Strings *)

Max(S) == CHOOSE x \in S : \A y \in S : y <= x

\* s.startsWith(pre)
StartsWith(s, pre) == Len(pre) <= Len(s) /\ SubSeq(s, 1, Len(pre)) = pre

\* s.endsWith(suf)
EndsWith(s, suf) ==
    Len(suf) <= Len(s) /\ SubSeq(s, Len(s) - Len(suf) + 1, Len(s)) = suf

\* s.slice(n), s.substring(n) for 0 <= n
Slice(s, n) == SubSeq(s, n + 1, Len(s))

\* s.lastIndexOf(c): 0-based, -1 when c does not occur
LastIndexOf(s, c) ==
    LET I == {i \in 1..Len(s) : s[i] = c}
    IN  IF I = {} THEN -1 ELSE Max(I) - 1

\* d.path.substring(0, d.path.lastIndexOf('/')); substring clamps -1 to 0
ParentPathOf(p) == SubSeq(p, 1, LastIndexOf(p, "/"))

\* path.split('/').pop() || path
NameOf(p) ==
    LET seg == Slice(p, LastIndexOf(p, "/") + 1)
    IN  IF seg = <<>> THEN p ELSE seg

\* s.replace('//', '/'): a string pattern replaces the first occurrence only
ReplaceDoubleSlash(s) ==
    LET I == {i \in 1..(Len(s) - 1) : s[i] = "/" /\ s[i + 1] = "/"}
    IN  IF I = {} THEN s
        ELSE LET i == CHOOSE x \in I : \A y \in I : x <= y
             IN  SubSeq(s, 1, i) \o SubSeq(s, i + 2, Len(s))

\* UTF-16 code units of the characters in use, for IndexedDB's key order
CharCode(c) ==
    CASE c = "/" -> 47
      [] c = "a" -> 97
      [] c = "b" -> 98
      [] c = "m" -> 109
      [] OTHER   -> 120

RECURSIVE KeyLess(_, _)
KeyLess(s, t) ==
    IF t = <<>> THEN FALSE
    ELSE IF s = <<>> THEN TRUE
    ELSE IF CharCode(Head(s)) # CharCode(Head(t))
         THEN CharCode(Head(s)) < CharCode(Head(t))
    ELSE KeyLess(Tail(s), Tail(t))

\* The elements of a finite set of integers, ascending
SortedSeq(I) ==
    [k \in 1..Cardinality(I) |->
        CHOOSE i \in I : Cardinality({x \in I : x < i}) = k - 1]

----------------------------------------------------------------------------
(* Values *)

Null      == [t |-> "null"]
Bool(v)   == [t |-> "bool", v |-> v]
Bytes(v)  == [t |-> "bytes", v |-> v]
Throw(e)  == [t |-> "error", v |-> e]
Diverges  == [t |-> "diverges"]
Stats(d)  == [t |-> "stats", size |-> d.size, isDirectory |-> d.isDirectory]
\* A VFile { descriptor }.  ref > 0: descriptor is the very object stored at
\* journal[ref] (the in-memory driver hands out its own objects); ref = 0: a
\* copy that the backend does not hold.
VFile(ref, d) == [t |-> "vfile", ref |-> ref, descriptor |-> d]
List(v)   == [t |-> "list", v |-> v]

Descriptor(path, isDir) ==
    [path |-> path, name |-> NameOf(path), size |-> 0, isDirectory |-> isDir]

NoContent == [x \in {} |-> <<>>]
Put(c, k, v) == [x \in (DOMAIN c) \cup {k} |-> IF x = k THEN v ELSE c[x]]
Del(c, k) == [x \in (DOMAIN c) \ {k} |-> c[x]]

EmptyBackend == [journal |-> <<>>, content |-> NoContent]

Ret(b, res) == [b |-> b, res |-> res]

RemoveAt(j, i) == SubSeq(j, 1, i - 1) \o SubSeq(j, i + 1, Len(j))

\* descriptors.findIndex(d => d.path === path), 1-based, 0 when absent
FindIndex(j, path) ==
    LET I == {i \in 1..Len(j) : j[i].path = path}
    IN  IF I = {} THEN 0 ELSE CHOOSE i \in I : \A k \in I : i <= k

----------------------------------------------------------------------------
(* InMemoryVFSDriver.  A backend is b = [journal, content]; an operation    *)
(* returns Ret(b', result).                                                *)

InMemory_createFile(b, path) ==
    IF FindIndex(b.journal, path) # 0 THEN Ret(b, Null)
    ELSE LET d == Descriptor(path, FALSE)
         IN  Ret([journal |-> Append(b.journal, d),
                  content |-> Put(b.content, path, <<>>)],
                 VFile(Len(b.journal) + 1, d))

InMemory_removeFile(b, path) ==
    LET index == FindIndex(b.journal, path)
    IN  IF index = 0 THEN Ret(b, Null)
        ELSE IF b.journal[index].isDirectory THEN Ret(b, Null)
        ELSE Ret([journal |-> RemoveAt(b.journal, index),
                  content |-> Del(b.content, path)],
                 VFile(0, b.journal[index]))

InMemory_createDirectory(b, path) ==
    IF FindIndex(b.journal, path) # 0 THEN Ret(b, Bool(FALSE))
    ELSE Ret([b EXCEPT !.journal = Append(@, Descriptor(path, TRUE))],
             Bool(TRUE))

InMemory_removeDirectory(b, path) ==
    LET index == FindIndex(b.journal, path)
        hasChildren ==
            \E i \in 1..Len(b.journal) :
                /\ b.journal[i].path # path
                /\ StartsWith(b.journal[i].path, path \o <<"/">>)
    IN  IF index = 0 THEN Ret(b, Bool(FALSE))
        ELSE IF ~b.journal[index].isDirectory THEN Ret(b, Bool(FALSE))
        ELSE IF hasChildren THEN Ret(b, Bool(FALSE))
        ELSE Ret([b EXCEPT !.journal = RemoveAt(@, index)], Bool(TRUE))

\* The indices of the descriptors that listDirectory's filter keeps
ListedIndices(j, path) ==
    LET cleanPath == IF path = <<"/">> THEN <<>> ELSE path
    IN  SortedSeq({i \in 1..Len(j) :
            /\ ParentPathOf(j[i].path) = cleanPath
            /\ j[i].path # cleanPath})

InMemory_listDirectory(b, path) ==
    LET idx == ListedIndices(b.journal, path)
    IN  Ret(b, List([k \in 1..Len(idx) |-> VFile(idx[k], b.journal[idx[k]])]))

InMemory_readFile(b, path) ==
    LET i == FindIndex(b.journal, path)
    IN  IF i = 0 \/ b.journal[i].isDirectory THEN Ret(b, Null)
        ELSE IF path \in DOMAIN b.content THEN Ret(b, Bytes(b.content[path]))
        ELSE Ret(b, Null)

InMemory_writeFile(b, path, data) ==
    LET i == FindIndex(b.journal, path)
    IN  IF i = 0 \/ b.journal[i].isDirectory THEN Ret(b, Bool(FALSE))
        ELSE Ret([journal |-> [b.journal EXCEPT ![i].size = Len(data)],
                  content |-> Put(b.content, path, data)],
                 Bool(TRUE))

InMemory_appendFile(b, path, data) ==
    LET i == FindIndex(b.journal, path)
    IN  IF i = 0 \/ b.journal[i].isDirectory \/ path \notin DOMAIN b.content
        THEN Ret(b, Bool(FALSE))
        ELSE LET newData == b.content[path] \o data
             IN  Ret([journal |-> [b.journal EXCEPT ![i].size = Len(newData)],
                      content |-> Put(b.content, path, newData)],
                     Bool(TRUE))

InMemory_exists(b, path) == Ret(b, Bool(FindIndex(b.journal, path) # 0))

InMemory_stat(b, path) ==
    LET i == FindIndex(b.journal, path)
    IN  IF i = 0 THEN Ret(b, Null) ELSE Ret(b, Stats(b.journal[i]))

\* The loop of rename (index.ts revision) over itemsToMove[k..]
RECURSIVE InMemory_renameLoop(_, _, _, _, _)
InMemory_renameLoop(b, items, k, oldPath, newPath) ==
    IF k > Len(items) THEN b
    ELSE LET i == items[k]
             desc == b.journal[i]
             oldItemPath == desc.path
             destPath == newPath \o Slice(desc.path, Len(oldPath))
             j2 == [b.journal EXCEPT ![i].path = destPath,
                                     ![i].name = NameOf(destPath)]
             c2 == IF ~desc.isDirectory /\ oldItemPath \in DOMAIN b.content
                   THEN Del(Put(b.content, destPath, b.content[oldItemPath]),
                            oldItemPath)
                   ELSE b.content
         IN  InMemory_renameLoop([journal |-> j2, content |-> c2],
                                 items, k + 1, oldPath, newPath)

\* rename, index.ts revision: moves the subtree
InMemory_rename(b, oldPath, newPath) ==
    IF FindIndex(b.journal, oldPath) = 0 \/ FindIndex(b.journal, newPath) # 0
    THEN Ret(b, Bool(FALSE))
    ELSE LET itemsToMove == SortedSeq({i \in 1..Len(b.journal) :
                 \/ b.journal[i].path = oldPath
                 \/ StartsWith(b.journal[i].path, oldPath \o <<"/">>)})
         IN  Ret(InMemory_renameLoop(b, itemsToMove, 1, oldPath, newPath),
                 Bool(TRUE))

\* rename, drivers/inmemory-corevfs-driver.ts revision: moves one descriptor
InMemoryOld_rename(b, oldPath, newPath) ==
    LET i == FindIndex(b.journal, oldPath)
    IN  IF i = 0 \/ FindIndex(b.journal, newPath) # 0 THEN Ret(b, Bool(FALSE))
        ELSE LET desc == b.journal[i]
                 j2 == [b.journal EXCEPT ![i].path = newPath,
                                         ![i].name = NameOf(newPath)]
                 c2 == IF ~desc.isDirectory /\ oldPath \in DOMAIN b.content
                       THEN Del(Put(b.content, newPath, b.content[oldPath]),
                                oldPath)
                       ELSE b.content
             IN  Ret([journal |-> j2, content |-> c2], Bool(TRUE))

\* copy of a file: the else branch of copy in both revisions
InMemory_copyFile(b, srcPath, destPath) ==
    IF srcPath \notin DOMAIN b.content THEN Ret(b, Bool(FALSE))
    ELSE InMemory_writeFile(InMemory_createFile(b, destPath).b, destPath,
                            b.content[srcPath])

\* copy, index.ts revision: recurses for directories.  fuel bounds the depth
\* of the recursion; a call that needs more is reported as Diverges.
RECURSIVE InMemory_copyRec(_, _, _, _)
RECURSIVE InMemory_copyLoop(_, _, _, _, _)
InMemory_copyLoop(b, children, k, destPath, fuel) ==
    IF k > Len(children) THEN Ret(b, Bool(TRUE))
    ELSE LET child == b.journal[children[k]]
             r == InMemory_copyRec(b, child.path,
                                   destPath \o <<"/">> \o child.name, fuel)
         IN  IF r.res = Diverges THEN r
             ELSE InMemory_copyLoop(r.b, children, k + 1, destPath, fuel)

InMemory_copyRec(b, srcPath, destPath, fuel) ==
    LET s == FindIndex(b.journal, srcPath)
    IN  IF s = 0 THEN Ret(b, Bool(FALSE))
        ELSE IF b.journal[s].isDirectory
        THEN IF fuel = 0 THEN Ret(b, Diverges)
             ELSE LET b1 == InMemory_createDirectory(b, destPath).b
                      children == SortedSeq({i \in 1..Len(b1.journal) :
                          ParentPathOf(b1.journal[i].path) = srcPath})
                  IN  InMemory_copyLoop(b1, children, 1, destPath, fuel - 1)
        ELSE InMemory_copyFile(b, srcPath, destPath)

\* copy, drivers/inmemory-corevfs-driver.ts revision: files only
InMemoryOld_copy(b, srcPath, destPath) ==
    LET s == FindIndex(b.journal, srcPath)
    IN  IF s = 0 \/ b.journal[s].isDirectory THEN Ret(b, Bool(FALSE))
        ELSE InMemory_copyFile(b, srcPath, destPath)

InMemory_truncate(b, path, length) ==
    LET i == FindIndex(b.journal, path)
    IN  IF i = 0 \/ b.journal[i].isDirectory \/ path \notin DOMAIN b.content
        THEN Ret(b, Bool(FALSE))
        ELSE IF length < Len(b.content[path])
        THEN LET n == IF length < 0 THEN Len(b.content[path]) + length
                      ELSE length
                 newData == SubSeq(b.content[path], 1, n)
             IN  Ret([journal |-> [b.journal EXCEPT ![i].size = length],
                      content |-> Put(b.content, path, newData)],
                     Bool(TRUE))
        ELSE Ret(b, Bool(TRUE))

----------------------------------------------------------------------------
(* IndexedDBVFSDriver.  journal is the 'descriptors' object store and       *)
(* content the 'content' store, both keyed by path; getAll() returns the   *)
(* records in key order, so journal is kept in key order.  A request that  *)
(* fails (add() of a key the store holds) rejects its promise and aborts   *)
(* the transaction: the method throws and the stores are as before it.     *)
(* Each method runs here without another call interleaving.                *)

\* store.add(d) to a store that holds no record with d's key
IDB_add(j, d) ==
    LET n == Cardinality({i \in 1..Len(j) : KeyLess(j[i].path, d.path)})
    IN  SubSeq(j, 1, n) \o <<d>> \o SubSeq(j, n + 1, Len(j))

IDB_exists(b, path) == Ret(b, Bool(FindIndex(b.journal, path) # 0))

IDB_stat(b, path) ==
    LET i == FindIndex(b.journal, path)
    IN  IF i = 0 THEN Ret(b, Null) ELSE Ret(b, Stats(b.journal[i]))

IDB_createFile(b, path) ==
    IF FindIndex(b.journal, path) # 0 THEN Ret(b, Null)
    ELSE IF path \in DOMAIN b.content THEN Ret(b, Throw("ConstraintError"))
    ELSE LET d == Descriptor(path, FALSE)
         IN  Ret([journal |-> IDB_add(b.journal, d),
                  content |-> Put(b.content, path, <<>>)],
                 VFile(0, d))
\* createFile after its exists() has answered false: the transaction with
\* the two add requests.  A key that is present fails its request, which
\* rejects the call and aborts the transaction.
IDB_createFileAdd(b, path) ==
    IF FindIndex(b.journal, path) # 0 \/ path \in DOMAIN b.content
    THEN Ret(b, Throw("ConstraintError"))
    ELSE LET d == Descriptor(path, FALSE)
         IN  Ret([journal |-> IDB_add(b.journal, d),
                  content |-> Put(b.content, path, <<>>)],
                 VFile(0, d))

IDB_removeFile(b, path) ==
    LET i == FindIndex(b.journal, path)
    IN  IF i = 0 THEN Ret(b, Null)
        ELSE IF b.journal[i].isDirectory THEN Ret(b, Null)
        ELSE Ret([journal |-> RemoveAt(b.journal, i),
                  content |-> Del(b.content, path)],
                 VFile(0, [b.journal[i] EXCEPT !.name = NameOf(path)]))

IDB_createDirectory(b, path) ==
    IF FindIndex(b.journal, path) # 0 THEN Ret(b, Bool(FALSE))
    ELSE Ret([b EXCEPT !.journal = IDB_add(@, Descriptor(path, TRUE))],
             Bool(TRUE))

IDB_listDirectory(b, path) ==
    LET idx == ListedIndices(b.journal, path)
    IN  Ret(b, List([k \in 1..Len(idx) |-> VFile(0, b.journal[idx[k]])]))

IDB_removeDirectory(b, path) ==
    LET i == FindIndex(b.journal, path)
    IN  IF i = 0 THEN Ret(b, Bool(FALSE))
        ELSE IF ~b.journal[i].isDirectory THEN Ret(b, Bool(FALSE))
        ELSE IF Len(IDB_listDirectory(b, path).res.v) > 0
        THEN Ret(b, Bool(FALSE))
        ELSE Ret([b EXCEPT !.journal = RemoveAt(@, i)], Bool(TRUE))

IDB_readFile(b, path) ==
    IF path \in DOMAIN b.content THEN Ret(b, Bytes(b.content[path]))
    ELSE Ret(b, Null)

IDB_writeFile(b, path, data) ==
    LET i == FindIndex(b.journal, path)
    IN  IF i = 0 \/ b.journal[i].isDirectory THEN Ret(b, Bool(FALSE))
        ELSE Ret([journal |-> [b.journal EXCEPT ![i].size = Len(data)],
                  content |-> Put(b.content, path, data)],
                 Bool(TRUE))

IDB_appendFile(b, path, data) ==
    IF path \notin DOMAIN b.content THEN Ret(b, Bool(FALSE))
    ELSE IDB_writeFile(b, path, b.content[path] \o data)

\* The loop of rename over toMove[k..]; b0 is the state the transaction
\* falls back to when a request fails.
RECURSIVE IDB_renameLoop(_, _, _, _, _, _)
IDB_renameLoop(b0, b, toMove, k, oldPath, newPath) ==
    IF k > Len(toMove) THEN Ret(b, Bool(TRUE))
    ELSE LET desc == toMove[k]
             dest == newPath \o Slice(desc.path, Len(oldPath))
             newDesc == [desc EXCEPT !.path = dest, !.name = NameOf(dest)]
             i == FindIndex(b.journal, desc.path)
             j1 == IF i = 0 THEN b.journal ELSE RemoveAt(b.journal, i)
             c2 == IF ~desc.isDirectory /\ desc.path \in DOMAIN b.content
                   THEN Put(Del(b.content, desc.path), dest,
                            b.content[desc.path])
                   ELSE b.content
         IN  IF FindIndex(j1, dest) # 0
             THEN Ret(b0, Throw("ConstraintError"))
             ELSE IDB_renameLoop(b0,
                      [journal |-> IDB_add(j1, newDesc), content |-> c2],
                      toMove, k + 1, oldPath, newPath)

IDB_rename(b, oldPath, newPath) ==
    IF FindIndex(b.journal, oldPath) = 0 \/ FindIndex(b.journal, newPath) # 0
    THEN Ret(b, Bool(FALSE))
    ELSE LET toMove == SelectSeq(b.journal, LAMBDA d :
                 \/ d.path = oldPath
                 \/ StartsWith(d.path, oldPath \o <<"/">>))
         IN  IDB_renameLoop(b, b, toMove, 1, oldPath, newPath)

\* copy: recurses for directories; fuel bounds the depth as in the in-memory
\* driver.  A throw of createFile ends the whole call.
RECURSIVE IDB_copyRec(_, _, _, _)
RECURSIVE IDB_copyLoop(_, _, _, _, _)
IDB_copyLoop(b, children, k, destPath, fuel) ==
    IF k > Len(children) THEN Ret(b, Bool(TRUE))
    ELSE LET child == children[k].descriptor
             r == IDB_copyRec(b, child.path,
                              destPath \o <<"/">> \o child.name, fuel)
         IN  IF r.res.t \in {"diverges", "error"} THEN r
             ELSE IDB_copyLoop(r.b, children, k + 1, destPath, fuel)

IDB_copyRec(b, srcPath, destPath, fuel) ==
    LET s == FindIndex(b.journal, srcPath)
    IN  IF s = 0 THEN Ret(b, Bool(FALSE))
        ELSE IF b.journal[s].isDirectory
        THEN IF fuel = 0 THEN Ret(b, Diverges)
             ELSE LET b1 == IDB_createDirectory(b, destPath).b
                  IN  IDB_copyLoop(b1, IDB_listDirectory(b1, srcPath).res.v,
                                   1, destPath, fuel - 1)
        ELSE IF srcPath \notin DOMAIN b.content THEN Ret(b, Bool(FALSE))
        ELSE LET c == IDB_createFile(b, destPath)
             IN  IF c.res.t = "error" THEN c
                 ELSE IDB_writeFile(c.b, destPath, b.content[srcPath])

IDB_truncate(b, path, length) ==
    IF path \notin DOMAIN b.content THEN Ret(b, Bool(FALSE))
    ELSE IF length < Len(b.content[path])
    THEN LET n == IF length < 0 THEN Len(b.content[path]) + length
                  ELSE length
         IN  IDB_writeFile(b, path, SubSeq(b.content[path], 1, n))
    ELSE Ret(b, Bool(TRUE))

----------------------------------------------------------------------------
(* CoreVFSDriver: a call through the interface runs the method of the      *)
(* driver's class.                                                         *)

Driver_createFile(k, b, path) ==
    IF k = "IndexedDB" THEN IDB_createFile(b, path)
    ELSE InMemory_createFile(b, path)

Driver_removeFile(k, b, path) ==
    IF k = "IndexedDB" THEN IDB_removeFile(b, path)
    ELSE InMemory_removeFile(b, path)

Driver_createDirectory(k, b, path) ==
    IF k = "IndexedDB" THEN IDB_createDirectory(b, path)
    ELSE InMemory_createDirectory(b, path)

Driver_removeDirectory(k, b, path) ==
    IF k = "IndexedDB" THEN IDB_removeDirectory(b, path)
    ELSE InMemory_removeDirectory(b, path)

Driver_listDirectory(k, b, path) ==
    IF k = "IndexedDB" THEN IDB_listDirectory(b, path)
    ELSE InMemory_listDirectory(b, path)

Driver_readFile(k, b, path) ==
    IF k = "IndexedDB" THEN IDB_readFile(b, path)
    ELSE InMemory_readFile(b, path)

Driver_writeFile(k, b, path, data) ==
    IF k = "IndexedDB" THEN IDB_writeFile(b, path, data)
    ELSE InMemory_writeFile(b, path, data)

Driver_appendFile(k, b, path, data) ==
    IF k = "IndexedDB" THEN IDB_appendFile(b, path, data)
    ELSE InMemory_appendFile(b, path, data)

Driver_exists(k, b, path) ==
    IF k = "IndexedDB" THEN IDB_exists(b, path) ELSE InMemory_exists(b, path)

Driver_stat(k, b, path) ==
    IF k = "IndexedDB" THEN IDB_stat(b, path) ELSE InMemory_stat(b, path)

Driver_truncate(k, b, path, length) ==
    IF k = "IndexedDB" THEN IDB_truncate(b, path, length)
    ELSE InMemory_truncate(b, path, length)

Driver_rename(k, b, oldPath, newPath) ==
    CASE k = "IndexedDB"   -> IDB_rename(b, oldPath, newPath)
      [] k = "InMemoryOld" -> InMemoryOld_rename(b, oldPath, newPath)
      [] OTHER             -> InMemory_rename(b, oldPath, newPath)

Driver_copy(k, b, srcPath, destPath, fuel) ==
    CASE k = "IndexedDB"   -> IDB_copyRec(b, srcPath, destPath, fuel)
      [] k = "InMemoryOld" -> InMemoryOld_copy(b, srcPath, destPath)
      [] OTHER             -> InMemory_copyRec(b, srcPath, destPath, fuel)

----------------------------------------------------------------------------
(* CoreVFS.  The facade and its backends are s = [mounts, kind, journal,   *)
(* content]; an operation returns Out(s', result).                          *)

Out(s, res) == [s |-> s, res |-> res]

Backend(s, d) == [journal |-> s.journal[d], content |-> s.content[d]]

\* s after driver d's call returned r
After(s, d, r) ==
    [s EXCEPT !.journal[d] = r.b.journal, !.content[d] = r.b.content]

\* Through(s, d, r): the outcome of a facade method that returns what the
\* driver returned
Through(s, d, r) == Out(After(s, d, r), r.res)

\* Other orders of the mount table: shortest first, and no sort at all
RECURSIVE SortByLengthAsc(_)
SortByLengthAsc(m) ==
    IF m = <<>> THEN <<>>
    ELSE LET rest == SortByLengthAsc(Tail(m))
             x == Head(m)
             n == Cardinality({i \in 1..Len(rest) :
                      Len(rest[i].path) < Len(x.path)})
         IN  SubSeq(rest, 1, n) \o <<x>> \o SubSeq(rest, n + 1, Len(rest))

NoSort(m) == m

\* Array.prototype.sort is stable: insert each mount after the ones that do
\* not sort behind it
RECURSIVE SortByLengthDesc(_)
SortByLengthDesc(m) ==
    IF m = <<>> THEN <<>>
    ELSE LET rest == SortByLengthDesc(Tail(m))
             x == Head(m)
             n == Cardinality({i \in 1..Len(rest) :
                      Len(rest[i].path) > Len(x.path)})
         IN  SubSeq(rest, 1, n) \o <<x>> \o SubSeq(rest, n + 1, Len(rest))

\* mounts.find(...) of resolve: the index of the first match, 0 when none
FindMount(m, path) ==
    LET I == {i \in 1..Len(m) :
                \/ m[i].path = path
                \/ m[i].path = <<"/">>
                \/ StartsWith(path, m[i].path \o <<"/">>)}
    IN  IF I = {} THEN 0 ELSE CHOOSE i \in I : \A k \in I : i <= k

\* resolve that hands a path no mount matches to the last mount of the table
resolveLenient(m, path) ==
    LET i == IF FindMount(m, path) = 0 THEN Len(m) ELSE FindMount(m, path)
    IN  IF i = 0 THEN Throw("NotMounted")
        ELSE IF FindMount(m, path) = 0
        THEN [t |-> "resolved", driver |-> m[i].driver,
              relativePath |-> path, mountPath |-> <<"/">>]
        ELSE LET rest == Slice(path, Len(m[i].path))
                 rel1 == IF rest = <<>> THEN <<"/">> ELSE rest
                 rel2 == IF Len(rel1) > 0 /\ ~StartsWith(rel1, <<"/">>)
                         THEN <<"/">> \o rel1 ELSE rel1
             IN  [t |-> "resolved", driver |-> m[i].driver,
                  relativePath |-> rel2, mountPath |-> m[i].path]

resolve(m, path) ==
    LET i == FindMount(m, path)
    IN  IF i = 0 THEN Throw("NotMounted")
        ELSE LET rest == Slice(path, Len(m[i].path))
                 rel1 == IF rest = <<>> THEN <<"/">> ELSE rest
                 rel2 == IF Len(rel1) > 0 /\ ~StartsWith(rel1, <<"/">>)
                         THEN <<"/">> \o rel1 ELSE rel1
             IN  [t |-> "resolved", driver |-> m[i].driver,
                  relativePath |-> rel2, mountPath |-> m[i].path]

\* fixDescriptorPath that prefixes the mount path to '/' as to any path
fixDescriptorPathNoCollapse(s, d, vFile, mountPath) ==
    IF mountPath = <<"/">> THEN Out(s, vFile)
    ELSE LET newPath == mountPath \o vFile.descriptor.path
         IN  Out(IF vFile.ref = 0 THEN s
                 ELSE [s EXCEPT !.journal[d][vFile.ref].path = newPath],
                 [vFile EXCEPT !.descriptor.path = newPath])

\* fixDescriptorPath writes the path into the descriptor object it is given:
\* when that object is the one in the journal of driver d, the journal's
\* descriptor changes with it.
fixDescriptorPath(s, d, vFile, mountPath) ==
    IF mountPath = <<"/">> THEN Out(s, vFile)
    ELSE LET originalPath == vFile.descriptor.path
             suffix == IF originalPath = <<"/">> THEN <<>> ELSE originalPath
             newPath == mountPath \o suffix
         IN  Out(IF vFile.ref = 0 THEN s
                 ELSE [s EXCEPT !.journal[d][vFile.ref].path = newPath],
                 [vFile EXCEPT !.descriptor.path = newPath])

\* The tail of createFile and removeFile: file ? fixDescriptorPath(...) : null
FixOrNull(s, d, r, mountPath) ==
    IF r.res.t = "vfile"
    THEN fixDescriptorPath(After(s, d, r), d, r.res, mountPath)
    ELSE Through(s, d, r)

CoreVFS_createFile(s, path) ==
    LET rp == resolve(s.mounts, path)
    IN  IF rp.t = "error" THEN Out(s, rp)
        ELSE FixOrNull(s, rp.driver,
                 Driver_createFile(s.kind[rp.driver], Backend(s, rp.driver),
                                   rp.relativePath),
                 rp.mountPath)

CoreVFS_removeFile(s, path) ==
    LET rp == resolve(s.mounts, path)
    IN  IF rp.t = "error" THEN Out(s, rp)
        ELSE FixOrNull(s, rp.driver,
                 Driver_removeFile(s.kind[rp.driver], Backend(s, rp.driver),
                                   rp.relativePath),
                 rp.mountPath)

CoreVFS_createDirectory(s, path) ==
    LET rp == resolve(s.mounts, path)
    IN  IF rp.t = "error" THEN Out(s, rp)
        ELSE Through(s, rp.driver,
                 Driver_createDirectory(s.kind[rp.driver],
                     Backend(s, rp.driver), rp.relativePath))

CoreVFS_removeDirectory(s, path) ==
    LET rp == resolve(s.mounts, path)
    IN  IF rp.t = "error" THEN Out(s, rp)
        ELSE Through(s, rp.driver,
                 Driver_removeDirectory(s.kind[rp.driver],
                     Backend(s, rp.driver), rp.relativePath))

\* files.map(f => fixDescriptorPath(f, mountPath)) over files[k..]
RECURSIVE FixAll(_, _, _, _, _)
FixAll(s, d, files, k, mountPath) ==
    IF k > Len(files) THEN Out(s, <<>>)
    ELSE LET f == fixDescriptorPath(s, d, files[k], mountPath)
             rest == FixAll(f.s, d, files, k + 1, mountPath)
         IN  Out(rest.s, <<f.res>> \o rest.res)

\* listDirectory without the filter on the name '/'
CoreVFS_listDirectoryUnfiltered(s, path) ==
    LET rp == resolve(s.mounts, path)
    IN  IF rp.t = "error" THEN Out(s, rp)
        ELSE LET r == Driver_listDirectory(s.kind[rp.driver],
                          Backend(s, rp.driver), rp.relativePath)
                 fixed == FixAll(After(s, rp.driver, r), rp.driver, r.res.v,
                                 1, rp.mountPath)
             IN  Out(fixed.s, List(fixed.res))

CoreVFS_listDirectory(s, path) ==
    LET rp == resolve(s.mounts, path)
    IN  IF rp.t = "error" THEN Out(s, rp)
        ELSE LET r == Driver_listDirectory(s.kind[rp.driver],
                          Backend(s, rp.driver), rp.relativePath)
                 fixed == FixAll(After(s, rp.driver, r), rp.driver, r.res.v,
                                 1, rp.mountPath)
             IN  Out(fixed.s,
                     List(SelectSeq(fixed.res,
                          LAMBDA f : f.descriptor.name # <<"/">>)))

CoreVFS_readFile(s, path) ==
    LET rp == resolve(s.mounts, path)
    IN  IF rp.t = "error" THEN Out(s, rp)
        ELSE Through(s, rp.driver,
                 Driver_readFile(s.kind[rp.driver], Backend(s, rp.driver),
                                 rp.relativePath))

CoreVFS_writeFile(s, path, data) ==
    LET rp == resolve(s.mounts, path)
    IN  IF rp.t = "error" THEN Out(s, rp)
        ELSE Through(s, rp.driver,
                 Driver_writeFile(s.kind[rp.driver], Backend(s, rp.driver),
                                  rp.relativePath, data))

CoreVFS_appendFile(s, path, data) ==
    LET rp == resolve(s.mounts, path)
    IN  IF rp.t = "error" THEN Out(s, rp)
        ELSE Through(s, rp.driver,
                 Driver_appendFile(s.kind[rp.driver], Backend(s, rp.driver),
                                   rp.relativePath, data))

\* exists whose catch answers true
CoreVFS_existsCatchTrue(s, path) ==
    LET rp == resolve(s.mounts, path)
    IN  IF rp.t = "error" THEN Out(s, Bool(TRUE))
        ELSE Through(s, rp.driver,
                 Driver_exists(s.kind[rp.driver], Backend(s, rp.driver),
                               rp.relativePath))

CoreVFS_exists(s, path) ==
    LET rp == resolve(s.mounts, path)
    IN  IF rp.t = "error" THEN Out(s, Bool(FALSE))
        ELSE Through(s, rp.driver,
                 Driver_exists(s.kind[rp.driver], Backend(s, rp.driver),
                               rp.relativePath))

CoreVFS_stat(s, path) ==
    LET rp == resolve(s.mounts, path)
    IN  IF rp.t = "error" THEN Out(s, rp)
        ELSE Through(s, rp.driver,
                 Driver_stat(s.kind[rp.driver], Backend(s, rp.driver),
                             rp.relativePath))

CoreVFS_truncate(s, path, length) ==
    LET rp == resolve(s.mounts, path)
    IN  IF rp.t = "error" THEN Out(s, rp)
        ELSE Through(s, rp.driver,
                 Driver_truncate(s.kind[rp.driver], Backend(s, rp.driver),
                                 rp.relativePath, length))

\* rename without the test that both paths are on one driver
CoreVFS_renameUnchecked(s, oldPath, newPath) ==
    LET src == resolve(s.mounts, oldPath)
        dst == resolve(s.mounts, newPath)
    IN  IF src.t = "error" THEN Out(s, src)
        ELSE IF dst.t = "error" THEN Out(s, dst)
        ELSE Through(s, src.driver,
                 Driver_rename(s.kind[src.driver], Backend(s, src.driver),
                               src.relativePath, dst.relativePath))

CoreVFS_rename(s, oldPath, newPath) ==
    LET src == resolve(s.mounts, oldPath)
        dst == resolve(s.mounts, newPath)
    IN  IF src.t = "error" THEN Out(s, src)
        ELSE IF dst.t = "error" THEN Out(s, dst)
        ELSE IF src.driver # dst.driver THEN Out(s, Throw("EXDEV"))
        ELSE Through(s, src.driver,
                 Driver_rename(s.kind[src.driver], Backend(s, src.driver),
                               src.relativePath, dst.relativePath))

\* copy that does not look whether the source exists: between two drivers
\* it creates the destination and writes what it read, or nothing
CoreVFS_copyNoStat(s, srcPath, destPath, fuel) ==
    LET src == resolve(s.mounts, srcPath)
        dst == resolve(s.mounts, destPath)
    IN  IF src.t = "error" THEN Out(s, src)
        ELSE IF dst.t = "error" THEN Out(s, dst)
        ELSE IF src.driver = dst.driver
        THEN Through(s, src.driver,
                 Driver_copy(s.kind[src.driver], Backend(s, src.driver),
                             src.relativePath, dst.relativePath, fuel))
        ELSE LET data == Driver_readFile(s.kind[src.driver],
                             Backend(s, src.driver), src.relativePath).res
                 c == CoreVFS_createFile(s, destPath)
             IN  IF c.res.t = "error" THEN c
                 ELSE Through(c.s, dst.driver,
                          Driver_writeFile(s.kind[dst.driver],
                              Backend(c.s, dst.driver), dst.relativePath,
                              IF data.t = "null" THEN <<>> ELSE data.v))

\* The cross-driver part of copy, and copy.  fuel bounds the depth of the
\* recursion; a call that needs more is reported as Diverges.  A throw ends
\* the call and leaves what was done before it.
RECURSIVE CoreVFS_copyRec(_, _, _, _)
RECURSIVE CoreVFS_copyLoop(_, _, _, _, _, _)
CoreVFS_copyLoop(s, names, k, srcPath, destPath, fuel) ==
    IF k > Len(names) THEN Out(s, Bool(TRUE))
    ELSE LET r == CoreVFS_copyRec(s,
                      ReplaceDoubleSlash(srcPath \o <<"/">> \o names[k]),
                      ReplaceDoubleSlash(destPath \o <<"/">> \o names[k]),
                      fuel)
         IN  IF r.res.t \in {"diverges", "error"} THEN r
             ELSE CoreVFS_copyLoop(r.s, names, k + 1, srcPath, destPath, fuel)

CoreVFS_copyRec(s, srcPath, destPath, fuel) ==
    LET src == resolve(s.mounts, srcPath)
        dst == resolve(s.mounts, destPath)
    IN  IF src.t = "error" THEN Out(s, src)
        ELSE IF dst.t = "error" THEN Out(s, dst)
        ELSE IF src.driver = dst.driver
        THEN Through(s, src.driver,
                 Driver_copy(s.kind[src.driver], Backend(s, src.driver),
                             src.relativePath, dst.relativePath, fuel))
        ELSE LET stats == Driver_stat(s.kind[src.driver],
                              Backend(s, src.driver), src.relativePath).res
             IN  IF stats.t = "null" THEN Out(s, Bool(FALSE))
                 ELSE IF stats.isDirectory
                 THEN IF fuel = 0 THEN Out(s, Diverges)
                      ELSE LET s1 == CoreVFS_createDirectory(s, destPath).s
                               ls == CoreVFS_listDirectory(s1, srcPath)
                               names == [k \in 1..Len(ls.res.v) |->
                                            ls.res.v[k].descriptor.name]
                           IN  CoreVFS_copyLoop(ls.s, names, 1, srcPath,
                                                destPath, fuel - 1)
                 ELSE LET data == Driver_readFile(s.kind[src.driver],
                                      Backend(s, src.driver),
                                      src.relativePath).res
                          c == CoreVFS_createFile(s, destPath)
                      IN  IF data.t = "null" THEN Out(s, Bool(FALSE))
                          ELSE IF c.res.t = "error" THEN c
                          ELSE Through(c.s, dst.driver,
                                   Driver_writeFile(s.kind[dst.driver],
                                       Backend(c.s, dst.driver),
                                       dst.relativePath, data.v))

\* The normalisation at the head of mount
CleanPath(path) ==
    LET p == IF StartsWith(path, <<"/">>) THEN path ELSE <<"/">> \o path
    IN  IF Len(p) > 1 /\ EndsWith(p, <<"/">>)
        THEN SubSeq(p, 1, Len(p) - 1) ELSE p

\* The tail of mount: push and sort
PushAndSort(m, entry) == SortByLengthDesc(Append(m, entry))

MountTable(m, driver, path) ==
    PushAndSort(m, [path |-> CleanPath(path), driver |-> driver])

\* mount that leaves the mount point to its owner
CoreVFS_mountNoMountPoint(s, driver, path) ==
    LET s1 == After(s, driver,
                  Driver_createDirectory(s.kind[driver], Backend(s, driver),
                                         <<"/">>))
    IN  Out([s1 EXCEPT !.mounts = MountTable(s1.mounts, driver, path)],
            [t |-> "void"])

CoreVFS_mount(s, driver, path) ==
    LET cleanPath == CleanPath(path)
        s1 == After(s, driver,
                  Driver_createDirectory(s.kind[driver], Backend(s, driver),
                                         <<"/">>))
        s2 == IF cleanPath # <<"/">> /\ ~CoreVFS_exists(s1, cleanPath).res.v
              THEN CoreVFS_createDirectory(s1, cleanPath).s
              ELSE s1
    IN  Out([s2 EXCEPT !.mounts = MountTable(s2.mounts, driver, path)],
            [t |-> "void"])

----------------------------------------------------------------------------
(* The state machine: a client makes one facade call after another.        *)

Drivers == {"A", "B"}
Kinds == {"InMemory", "InMemoryOld", "IndexedDB"}

\* Bounds of the model
MaxMounts == 3
MaxFacadeMounts == 2
MaxJournal == 3
MaxPathLen == 6
MaxData == 2
MaxDepth == 3

Root == <<"/">>
PA   == <<"/", "a">>
PAA  == <<"/", "a", "/", "a">>
PAB  == <<"/", "a", "/", "b">>
PB   == <<"/", "b">>
PAAA == <<"/", "a", "/", "a", "/", "a">>
PM   == <<"/", "m">>
PMA  == <<"/", "m", "/", "a">>
PMAA == <<"/", "m", "/", "a", "/", "a">>
PMMA == <<"/", "m", "/", "m", "/", "a">>

\* What mount() is called with: normalized paths and paths it normalizes
MountInputs == {Root, PA, PAB, PB, <<"a">>, <<"/", "a", "/">>, <<"/", "/">>}

\* Every string of 1..4 characters over '/', 'a', 'b' that starts with '/'
ResolveInputs ==
    LET C == {"/", "a", "b"}
    IN  UNION {{<<"/">> \o t : t \in [1..n -> C]} : n \in 0..3}

S == [mounts |-> mounts, kind |-> kind, journal |-> journal,
      content |-> content]

Bounded(s) ==
    \A d \in Drivers :
        /\ Len(s.journal[d]) <= MaxJournal
        /\ \A i \in 1..Len(s.journal[d]) :
               Len(s.journal[d][i].path) <= MaxPathLen
        /\ \A p \in DOMAIN s.content[d] :
               Len(p) <= MaxPathLen /\ Len(s.content[d][p]) <= MaxData

\* The call op(args) returns: the state becomes what it left
Returns(op, args, out) ==
    /\ out.res.t # "diverges"
    /\ Bounded(out.s)
    /\ mounts' = out.s.mounts
    /\ journal' = out.s.journal
    /\ content' = out.s.content
    /\ kind' = kind
    /\ last' = [op |-> op, args |-> args, res |-> out.res]
    /\ tasks' = tasks

InitWith(K) ==
    /\ mounts = <<>>
    /\ kind \in [Drivers -> K]
    /\ journal = [d \in Drivers |-> <<>>]
    /\ content = [d \in Drivers |-> NoContent]
    /\ last = [op |-> "new", args |-> <<>>, res |-> [t |-> "void"]]
    /\ tasks = {}

Mount(DP, n) ==
    /\ Len(mounts) < n
    /\ \E dp \in DP :
           Returns("mount", dp, CoreVFS_mount(S, dp[1], dp[2]))

CreateFile(P) ==
    \E p \in P : Returns("createFile", <<p>>, CoreVFS_createFile(S, p))

RemoveFile(P) ==
    \E p \in P : Returns("removeFile", <<p>>, CoreVFS_removeFile(S, p))

CreateDirectory(P) ==
    \E p \in P :
        Returns("createDirectory", <<p>>, CoreVFS_createDirectory(S, p))

RemoveDirectory(P) ==
    \E p \in P :
        Returns("removeDirectory", <<p>>, CoreVFS_removeDirectory(S, p))

ListDirectory(P) ==
    \E p \in P : Returns("listDirectory", <<p>>, CoreVFS_listDirectory(S, p))

ReadFile(P) ==
    \E p \in P : Returns("readFile", <<p>>, CoreVFS_readFile(S, p))

WriteFile(P, D) ==
    \E p \in P, data \in D :
        Returns("writeFile", <<p, data>>, CoreVFS_writeFile(S, p, data))

AppendFile(P, D) ==
    \E p \in P, data \in D :
        Returns("appendFile", <<p, data>>, CoreVFS_appendFile(S, p, data))

Exists(P) ==
    \E p \in P : Returns("exists", <<p>>, CoreVFS_exists(S, p))

Stat(P) ==
    \E p \in P : Returns("stat", <<p>>, CoreVFS_stat(S, p))

Rename(P) ==
    \E p \in P, q \in P :
        Returns("rename", <<p, q>>, CoreVFS_rename(S, p, q))

Truncate(P, L) ==
    \E p \in P, n \in L :
        Returns("truncate", <<p, n>>, CoreVFS_truncate(S, p, n))

Copy(P) ==
    \E p \in P, q \in P :
        Returns("copy", <<p, q>>, CoreVFS_copyRec(S, p, q, MaxDepth))

----------------------------------------------------------------------------
(* SpecMount: any sequence of mount() calls.                               *)

InitMount == InitWith(Kinds)
NextMount == Mount(Drivers \X MountInputs, MaxMounts)
SpecMount == InitMount /\ [][NextMount]_vars

----------------------------------------------------------------------------
(* The facade over two backends: A mounted at '/' and B at '/m', in either *)
(* order.  Each specification below lets the client make the calls of one  *)
(* group of operations on a small set of paths.                            *)

FacadeMounts == {<<"A", Root>>, <<"B", PM>>}
FacadeData == {<<1>>, <<2>>}

\* Spec: files.  create, remove, read, write, append, exists.
FilePaths == {PA, PMA}

Init == InitWith({"InMemory", "IndexedDB"})
Next ==
    \/ Mount(FacadeMounts, MaxFacadeMounts)
    \/ CreateFile(FilePaths)
    \/ RemoveFile(FilePaths)
    \/ ReadFile(FilePaths)
    \/ WriteFile(FilePaths, FacadeData)
    \/ AppendFile(FilePaths, FacadeData)
    \/ Exists(FilePaths)
Spec == Init /\ [][Next]_vars

\* SpecDirs: directories.  create, remove, stat, and createFile.
DirPaths == {Root, PA, PM, PMA}

InitDirs == InitWith({"InMemory", "IndexedDB"})
NextDirs ==
    \/ Mount(FacadeMounts, MaxFacadeMounts)
    \/ CreateFile(DirPaths)
    \/ CreateDirectory(DirPaths)
    \/ RemoveDirectory(DirPaths)
    \/ Stat(DirPaths)
SpecDirs == InitDirs /\ [][NextDirs]_vars

\* SpecRename: rename, within a backend and across the two.
RenamePaths == {PA, PB, PMA, PMMA}

InitRename == InitWith(Kinds) /\ kind["A"] = kind["B"]
NextRename ==
    \/ Mount(FacadeMounts, MaxFacadeMounts)
    \/ CreateFile(RenamePaths)
    \/ CreateDirectory(RenamePaths)
    \/ WriteFile(RenamePaths, {<<1>>})
    \/ Rename(RenamePaths)
SpecRename == InitRename /\ [][NextRename]_vars

\* SpecCross: rename between the two backends, each of any kind.
CrossPaths == {PA, PMA}

InitCross == InitWith(Kinds)
NextCross ==
    \/ Mount(FacadeMounts, MaxFacadeMounts)
    \/ CreateFile(CrossPaths)
    \/ CreateDirectory(CrossPaths)
    \/ Rename(CrossPaths)
SpecCross == InitCross /\ [][NextCross]_vars

\* SpecCopy: copy, within a backend and across the two.
CopyPaths == {PA, PAA, PMA, PMAA}

InitCopy == InitWith(Kinds) /\ kind["A"] = kind["B"]
NextCopy ==
    \/ Mount(FacadeMounts, MaxFacadeMounts)
    \/ CreateFile(CopyPaths)
    \/ CreateDirectory(CopyPaths)
    \/ WriteFile(CopyPaths, {<<1>>})
    \/ Copy(CopyPaths)
SpecCopy == InitCopy /\ [][NextCopy]_vars

\* SpecDriver: the client calls driver A directly; nothing is mounted.
DriverPaths == {PA, PAA, PB}

OfDriver(d, r) == Through(S, d, r)

InitDriver == InitWith(Kinds) /\ kind["A"] = kind["B"]

DriverCreateFile(P) ==
    \E p \in P :
        Returns("driver.createFile", <<p>>,
            OfDriver("A", Driver_createFile(kind["A"], Backend(S, "A"), p)))

DriverCreateDirectory(P) ==
    \E p \in P :
        Returns("driver.createDirectory", <<p>>,
            OfDriver("A",
                Driver_createDirectory(kind["A"], Backend(S, "A"), p)))

DriverWriteFile(P, D) ==
    \E p \in P, data \in D :
        Returns("driver.writeFile", <<p, data>>,
            OfDriver("A",
                Driver_writeFile(kind["A"], Backend(S, "A"), p, data)))

DriverRename(P) ==
    \E p \in P, q \in P :
        Returns("driver.rename", <<p, q>>,
            OfDriver("A", Driver_rename(kind["A"], Backend(S, "A"), p, q)))

NextDriver ==
    \/ DriverCreateFile(DriverPaths)
    \/ DriverCreateDirectory(DriverPaths)
    \/ DriverWriteFile(DriverPaths, FacadeData)
    \/ DriverRename(DriverPaths)
SpecDriver == InitDriver /\ [][NextDriver]_vars

\* The state a step leads to
SPrime == [mounts |-> mounts', kind |-> kind', journal |-> journal',
           content |-> content']

----------------------------------------------------------------------------
(* Claims about the mount table and resolve, under SpecMount.              *)

\* The entries of table m that the claim calls matching for path p
MatchingEntries(m, p) ==
    {i \in 1..Len(m) :
        \/ m[i].path = p
        \/ m[i].path = Root
        \/ StartsWith(p, m[i].path \o <<"/">>)}

\* C1: for every mount table built by mount() calls and every path p that
\* some entry matches, resolve(p) returns a matching entry, and no matching
\* entry has a longer mountPath than the one returned.
C1_LongestMountWins ==
    \A p \in ResolveInputs :
        LET M == MatchingEntries(mounts, p)
            r == resolve(mounts, p)
        IN  M # {} =>
              /\ r.t = "resolved"
              /\ \E i \in M : mounts[i].path = r.mountPath
                              /\ mounts[i].driver = r.driver
              /\ \A i \in M : Len(mounts[i].path) <= Len(r.mountPath)

\* C1's case: three mounts of different depth match one path, and the
\* deepest of them was mounted last.
C1_Witness ==
    /\ last.op = "mount"
    /\ last.args[2] = PAB
    /\ {mounts[i].path : i \in MatchingEntries(mounts, PAB)} = {Root, PA, PAB}
    /\ resolve(mounts, PAB).mountPath = PAB

IndexPermutations(n) ==
    {f \in [1..n -> 1..n] : \A i, j \in 1..n : f[i] = f[j] => i = j}

\* The table that pushing and sorting the entries of calls, in order, builds
RECURSIVE TableOf(_)
TableOf(calls) ==
    IF calls = <<>> THEN <<>>
    ELSE PushAndSort(TableOf(SubSeq(calls, 1, Len(calls) - 1)),
                     calls[Len(calls)])

DistinctMountPaths(m) ==
    \A i, j \in 1..Len(m) : m[i].path = m[j].path => i = j

\* C2: when the mount paths are distinct, the table that the same mount()
\* calls build in any other order resolves every path to the same driver,
\* relativePath and mountPath.
C2_OrderIndependent ==
    DistinctMountPaths(mounts) =>
        \A f \in IndexPermutations(Len(mounts)) :
            \A p \in ResolveInputs :
                resolve(TableOf([i \in 1..Len(mounts) |-> mounts[f[i]]]), p)
                    = resolve(mounts, p)

\* C2's case: '/a' was mounted before '/a/b' (the other order is reachable
\* as well), on different drivers, and a path under '/a/b' resolves.
C2_Witness ==
    /\ Len(mounts) = 2
    /\ last.op = "mount" /\ last.args = <<"B", PAB>>
    /\ \E i \in 1..2 : mounts[i] = [path |-> PA, driver |-> "A"]
    /\ resolve(mounts, PAB \o <<"/", "a">>).driver = "B"

----------------------------------------------------------------------------
(* Claims about the facade's operations.                                   *)

Resolved(p) == resolve(mounts, p).t = "resolved"

CrossDriver(p, q) ==
    /\ Resolved(p) /\ Resolved(q)
    /\ resolve(mounts, p).driver # resolve(mounts, q).driver

SameDriver(p, q) ==
    /\ Resolved(p) /\ Resolved(q)
    /\ resolve(mounts, p).driver = resolve(mounts, q).driver

ExistsAt(s, p) == CoreVFS_exists(s, p).res.v

IsFileAt(s, p) ==
    LET st == CoreVFS_stat(s, p).res
    IN  st.t = "stats" /\ ~st.isDirectory

IsDirectoryAt(s, p) ==
    LET st == CoreVFS_stat(s, p).res
    IN  st.t = "stats" /\ st.isDirectory

BackendsUnchanged == UNCHANGED <<mounts, journal, content>>

RoundTripData == {<<>>, <<1>>, <<1, 2, 3>>}

\* C3: once createFile(p) has returned a VFile, writeFile(p, d) returns true
\* and a following readFile(p) returns d, under the root mount and under
\* '/m' alike.
C3_CreateWriteRead ==
    (last.op = "createFile" /\ last.res.t = "vfile") =>
        \A d \in RoundTripData :
            LET p == last.args[1]
                w == CoreVFS_writeFile(S, p, d)
            IN  /\ w.res = Bool(TRUE)
                /\ CoreVFS_readFile(w.s, p).res = Bytes(d)

\* C4: a rename whose two paths resolve to different drivers throws EXDEV
\* and leaves the mount table and both backends as they were.
C4_CrossDeviceRenameFails ==
    [][(last'.op = "rename" /\ CrossDriver(last'.args[1], last'.args[2]))
        => (last'.res = Throw("EXDEV") /\ BackendsUnchanged)]_vars

\* C4's case: a rename of an existing file to a path on the other backend
\* has been refused.
C4_Witness ==
    /\ last.op = "rename"
    /\ last.res = Throw("EXDEV")
    /\ CrossDriver(last.args[1], last.args[2])
    /\ IsFileAt(S, last.args[1])
    /\ ~ExistsAt(S, last.args[2])

\* C5: copy(src, dest) of an existing file to an absent path on the other
\* driver returns true, and then readFile(dest) returns what readFile(src)
\* returned.
C5_CrossCopyFile ==
    [][LET p == last'.args[1]
           q == last'.args[2]
       IN  (/\ last'.op = "copy"
            /\ CrossDriver(p, q)
            /\ IsFileAt(S, p)
            /\ ~ExistsAt(S, q))
           => /\ last'.res = Bool(TRUE)
              /\ CoreVFS_readFile(SPrime, q).res = CoreVFS_readFile(S, p).res
      ]_vars

\* C6: copy(src, dest) of a directory to the other driver, with nothing at
\* or under dest, leaves for every entry at src + r an entry of the same
\* kind at dest + r, a file with the same bytes.
C6_CrossCopyDirectory ==
    [][LET p == last'.args[1]
           q == last'.args[2]
       IN  (/\ last'.op = "copy"
            /\ CrossDriver(p, q)
            /\ IsDirectoryAt(S, p)
            /\ \A y \in CopyPaths :
                   (y = q \/ StartsWith(y, q \o <<"/">>)) => ~ExistsAt(S, y))
           => \A x \in CopyPaths :
                  (StartsWith(x, p \o <<"/">>) /\ ExistsAt(S, x)) =>
                      LET y == q \o Slice(x, Len(p))
                      IN  /\ IsFileAt(SPrime, y) = IsFileAt(S, x)
                          /\ IsDirectoryAt(SPrime, y) = IsDirectoryAt(S, x)
                          /\ CoreVFS_readFile(SPrime, y).res
                                 = CoreVFS_readFile(S, x).res
      ]_vars

\* Whether x is a path below directory p
IsBelow(x, p) ==
    x # p /\ StartsWith(x, IF p = Root THEN Root ELSE p \o <<"/">>)

\* Whether the facade reports an entry below directory p
HasDescendant(s, p) == \E x \in DirPaths : IsBelow(x, p) /\ ExistsAt(s, x)

\* C7: removeDirectory(p) of a directory that has a descendant returns false
\* and changes nothing, also for '/' and for a mount path; removeDirectory
\* of a missing path returns false.
C7_RemoveNonEmptyDirectory ==
    [][LET p == last'.args[1]
       IN  (last'.op = "removeDirectory" /\ Resolved(p)) =>
             /\ (IsDirectoryAt(S, p) /\ HasDescendant(S, p))
                    => (last'.res = Bool(FALSE) /\ BackendsUnchanged)
             /\ ~ExistsAt(S, p) => last'.res = Bool(FALSE)
      ]_vars

\* C8: rename(old, new) within one backend, old existing and new absent,
\* returns true; then old does not exist, new exists, and readFile(new)
\* returns what readFile(old) returned before.
C8_RenameWithinBackend ==
    [][LET p == last'.args[1]
           q == last'.args[2]
       IN  (/\ last'.op = "rename"
            /\ SameDriver(p, q)
            /\ ExistsAt(S, p)
            /\ ~ExistsAt(S, q))
           => /\ last'.res = Bool(TRUE)
              /\ ~ExistsAt(SPrime, p)
              /\ ExistsAt(SPrime, q)
              /\ CoreVFS_readFile(SPrime, q).res = CoreVFS_readFile(S, p).res
      ]_vars

\* C9: a backend rename(old, new) of a directory that returns true, new not
\* lying below old, moves the subtree: every descriptor at old + s is
\* afterwards at new + s, of the same kind and with its content, and no
\* descriptor or content record is left under old.
C9_RenameMovesSubtree ==
    [][LET old == last'.args[1]
           new == last'.args[2]
           b == Backend(S, "A")
           b2 == Backend(SPrime, "A")
           under == old \o <<"/">>
       IN  (/\ last'.op = "driver.rename"
            /\ last'.res = Bool(TRUE)
            /\ ~IsBelow(new, old)
            /\ FindIndex(b.journal, old) # 0
            /\ b.journal[FindIndex(b.journal, old)].isDirectory)
           => /\ \A i \in 1..Len(b.journal) :
                    StartsWith(b.journal[i].path, under) =>
                        LET dest == new \o Slice(b.journal[i].path, Len(old))
                        IN  /\ \E k \in 1..Len(b2.journal) :
                                   /\ b2.journal[k].path = dest
                                   /\ b2.journal[k].isDirectory
                                          = b.journal[i].isDirectory
                            /\ b.journal[i].path \in DOMAIN b.content =>
                                   /\ dest \in DOMAIN b2.content
                                   /\ b2.content[dest]
                                          = b.content[b.journal[i].path]
              /\ \A i \in 1..Len(b2.journal) :
                     ~StartsWith(b2.journal[i].path, under)
              /\ \A c \in DOMAIN b2.content : ~StartsWith(c, under)
      ]_vars

AppendData == {<<>>, <<1>>, <<2>>}

\* C10: once createFile(p) has returned a VFile, appendFile(p, d1) and then
\* appendFile(p, d2) both return true and readFile(p) returns d1 ++ d2.
C10_AppendConcatenates ==
    (last.op = "createFile" /\ last.res.t = "vfile") =>
        \A d1, d2 \in AppendData :
            LET p == last.args[1]
                a1 == CoreVFS_appendFile(S, p, d1)
                a2 == CoreVFS_appendFile(a1.s, p, d2)
            IN  /\ a1.res = Bool(TRUE)
                /\ a2.res = Bool(TRUE)
                /\ CoreVFS_readFile(a2.s, p).res = Bytes(d1 \o d2)

----------------------------------------------------------------------------
(* SpecList: listings of directories.  mount, createDirectory, rename and  *)
(* listDirectory over the root, the mount point and a path below it.       *)

ListPaths == {Root, PM, PMA}

InitList == InitWith({"InMemory", "IndexedDB"})
NextList ==
    \/ Mount(FacadeMounts, MaxFacadeMounts)
    \/ CreateDirectory(ListPaths)
    \/ Rename(ListPaths)
    \/ ListDirectory(ListPaths)
SpecList == InitList /\ [][NextList]_vars

IsMountPath(m, p) == \E i \in 1..Len(m) : m[i].path = p

\* C11: a listDirectory(p) of '/' or of a mount path returns no entry whose
\* name is '/' and no entry whose path is p.
C11_ListingOmitsSelf ==
    [][LET p == last'.args[1]
       IN  (/\ last'.op = "listDirectory"
            /\ last'.res.t = "list"
            /\ (p = Root \/ IsMountPath(mounts, p)))
           => \A k \in 1..Len(last'.res.v) :
                  /\ last'.res.v[k].descriptor.name # Root
                  /\ last'.res.v[k].descriptor.path # p
      ]_vars

\* C11's case: the backend of the mount at '/m' reported its own root among
\* the children of '/', and the listing of '/m' handed out the rest.
C11_Witness ==
    /\ last.op = "listDirectory"
    /\ last.args[1] = PM
    /\ IsMountPath(mounts, PM)
    /\ last.res.t = "list" /\ Len(last.res.v) > 0
    /\ LET rp == resolve(mounts, PM)
           r == Driver_listDirectory(kind[rp.driver], Backend(S, rp.driver),
                                     rp.relativePath)
       IN  Len(r.res.v) > Len(last.res.v)

\* C12: once createFile(p) has returned a VFile, a second createFile(p)
\* returns null and changes nothing, and the backend that owns p holds
\* exactly one descriptor at p's backend path.
C12_CreateExistingFile ==
    (last.op = "createFile" /\ last.res.t = "vfile") =>
        LET p == last.args[1]
            rp == resolve(mounts, p)
            j == journal[rp.driver]
            c2 == CoreVFS_createFile(S, p)
        IN  /\ c2.res = Null
            /\ c2.s = S
            /\ Cardinality({i \in 1..Len(j) :
                    j[i].path = rp.relativePath}) = 1

----------------------------------------------------------------------------
(* SpecUnmounted: every operation of the facade while the table is empty   *)
(* or holds the one mount '/m', on a path under '/m' and a path outside.   *)

UnmountedPaths == {PA, PMA}
TruncateLengths == {0, 1}

InitUnmounted == InitWith(Kinds) /\ kind["A"] = kind["B"]
NextUnmounted ==
    \/ Mount({<<"B", PM>>}, 1)
    \/ CreateFile(UnmountedPaths)
    \/ RemoveFile(UnmountedPaths)
    \/ CreateDirectory(UnmountedPaths)
    \/ RemoveDirectory(UnmountedPaths)
    \/ ListDirectory(UnmountedPaths)
    \/ ReadFile(UnmountedPaths)
    \/ WriteFile(UnmountedPaths, {<<1>>})
    \/ AppendFile(UnmountedPaths, {<<1>>})
    \/ Exists(UnmountedPaths)
    \/ Stat(UnmountedPaths)
    \/ Rename(UnmountedPaths)
    \/ Copy(UnmountedPaths)
    \/ Truncate(UnmountedPaths, TruncateLengths)
SpecUnmounted == InitUnmounted /\ [][NextUnmounted]_vars

\* No entry of the mount table matches p
NoMountMatches(p) == MatchingEntries(mounts, p) = {}

\* C13: exists(p) of a path that no mount matches returns false, throws
\* nothing and leaves every backend as it was.
C13_ExistsNeverThrows ==
    [][(last'.op = "exists" /\ NoMountMatches(last'.args[1]))
        => (last'.res = Bool(FALSE) /\ BackendsUnchanged)]_vars

\* C13's case: '/m' is mounted, there is no root mount, and exists('/a')
\* has answered false.
C13_Witness ==
    /\ last.op = "exists"
    /\ last.args[1] = PA
    /\ mounts # <<>>
    /\ NoMountMatches(PA)
    /\ last.res = Bool(FALSE)

PathOperations ==
    {"createFile", "removeFile", "createDirectory", "removeDirectory",
     "listDirectory", "readFile", "writeFile", "appendFile", "stat",
     "truncate"}
TwoPathOperations == {"rename", "copy"}

\* C14: an operation other than exists and mount, one of whose paths no
\* mount matches, throws NotMounted and leaves every backend as it was.
C14_NotMountedThrows ==
    [][(\/ /\ last'.op \in PathOperations
            /\ NoMountMatches(last'.args[1])
        \/ /\ last'.op \in TwoPathOperations
            /\ (NoMountMatches(last'.args[1]) \/ NoMountMatches(last'.args[2])))
        => (last'.res = Throw("NotMounted") /\ BackendsUnchanged)]_vars

\* C14's case: a copy of an existing file under the mount '/m' to a path
\* outside every mount has thrown NotMounted.
C14_Witness ==
    /\ last.op = "copy"
    /\ last.args = <<PMA, PA>>
    /\ Resolved(PMA) /\ NoMountMatches(PA)
    /\ IsFileAt(S, PMA)
    /\ last.res = Throw("NotMounted")

----------------------------------------------------------------------------
(* SpecCopyCross: copy between the two backends, each of any kind, of      *)
(* files and directories that exist and that do not.                       *)

CopyCrossPaths == {PA, PMA}

InitCopyCross == InitWith(Kinds)
NextCopyCross ==
    \/ Mount(FacadeMounts, MaxFacadeMounts)
    \/ CreateFile(CopyCrossPaths)
    \/ CreateDirectory(CopyCrossPaths)
    \/ Copy(CopyCrossPaths)
SpecCopyCross == InitCopyCross /\ [][NextCopyCross]_vars

\* C15: a copy between two drivers whose source does not exist on its
\* backend returns false and leaves every backend as it was.
C15_CrossCopyAbsentSource ==
    [][LET p == last'.args[1]
           q == last'.args[2]
           rp == resolve(mounts, p)
       IN  (/\ last'.op = "copy"
            /\ CrossDriver(p, q)
            /\ FindIndex(journal[rp.driver], rp.relativePath) = 0)
           => (last'.res = Bool(FALSE) /\ BackendsUnchanged)
      ]_vars

\* C15's case: such a copy has returned false while the destination's
\* backend holds entries of its own.
C15_Witness ==
    /\ last.op = "copy"
    /\ last.res = Bool(FALSE)
    /\ CrossDriver(last.args[1], last.args[2])
    /\ LET rp == resolve(mounts, last.args[1])
           rq == resolve(mounts, last.args[2])
       IN  /\ FindIndex(journal[rp.driver], rp.relativePath) = 0
           /\ Len(journal[rq.driver]) > 1

\* The paths of the entries a listDirectory returned
ListedPaths(res) == [k \in 1..Len(res.v) |-> res.v[k].descriptor.path]

\* C16: createFile, removeFile and listDirectory rewrite only the value
\* they return.  A createFile or removeFile leaves the backend as the
\* driver's own call left it, and afterwards a listDirectory of '/' or '/m'
\* leaves every journal as it was and, called again, returns the same paths.
C16_JournalKeepsRelativePaths ==
    [][LET p == last'.args[1]
           rp == resolve(mounts, p)
           k == kind[rp.driver]
           b == Backend(S, rp.driver)
       IN  (last'.op \in {"createFile", "removeFile"} /\ Resolved(p)) =>
             /\ Backend(SPrime, rp.driver) =
                    (IF last'.op = "createFile"
                     THEN Driver_createFile(k, b, rp.relativePath).b
                     ELSE Driver_removeFile(k, b, rp.relativePath).b)
             /\ \A q \in {Root, PM} :
                    Resolved(q) =>
                        LET l1 == CoreVFS_listDirectory(SPrime, q)
                            l2 == CoreVFS_listDirectory(l1.s, q)
                        IN  /\ l1.s = SPrime
                            /\ ListedPaths(l2.res) = ListedPaths(l1.res)
      ]_vars

\* Whether p is a normalized absolute path: it starts with '/', does not end
\* in '/' unless it is '/', and holds no '//'
Normalized(p) ==
    /\ StartsWith(p, Root)
    /\ (p = Root \/ ~EndsWith(p, Root))
    /\ \A i \in 1..(Len(p) - 1) : ~(p[i] = "/" /\ p[i + 1] = "/")

\* The path the facade hands out for a descriptor that the backend reports
\* at the backend path of p
Rewritten(p) ==
    LET rp == resolve(mounts, p)
    IN  fixDescriptorPath(S, rp.driver,
            VFile(0, Descriptor(rp.relativePath, FALSE)),
            rp.mountPath).res.descriptor.path

\* C17 as stated: for every absolute path p that a mount matches, the
\* descriptor reported at resolve(p).relativePath is rewritten to p.
C17_AnyAbsolutePath ==
    \A p \in ResolveInputs : Resolved(p) => Rewritten(p) = p

\* C17, amended: the same for every normalized absolute path p; a path
\* that equals its mount path comes back as the mount path, a path under
\* the root mount unchanged.
C17_ResolveFixInverse ==
    \A p \in ResolveInputs :
        (Normalized(p) /\ Resolved(p)) => Rewritten(p) = p

\* C17's case: '/' and '/a' are mounted; '/a' resolves to the root of the
\* mount at '/a' and comes back as '/a', '/a/b' resolves below it and '/b'
\* under the root mount.
C17_Witness ==
    /\ IsMountPath(mounts, Root) /\ IsMountPath(mounts, PA)
    /\ resolve(mounts, PA).relativePath = Root
    /\ Rewritten(PA) = PA
    /\ resolve(mounts, PAB).mountPath = PA /\ Rewritten(PAB) = PAB
    /\ resolve(mounts, PB).mountPath = Root /\ Rewritten(PB) = PB

----------------------------------------------------------------------------
(* SpecMountRaw: mount() called with strings that lack the leading '/' or  *)
(* end in one, two or three '/'.                                           *)

RawMountInputs ==
    {Root, <<"a">>, <<"/", "a", "/">>, <<"/", "a", "/", "/">>, <<"/", "/">>,
     <<"/", "/", "/">>, <<"a", "/", "/">>}

NextMountRaw == Mount(Drivers \X RawMountInputs, MaxMounts)
SpecMountRaw == InitMount /\ [][NextMountRaw]_vars

\* C18: the mount paths in the table are pairwise distinct.
C18_MountPathsDistinct == DistinctMountPaths(mounts)

\* C19: every mount path in the table starts with '/' and does not end in
\* '/' unless it is '/'.
C19_MountPathsNormalized ==
    \A i \in 1..Len(mounts) :
        /\ StartsWith(mounts[i].path, Root)
        /\ (mounts[i].path = Root \/ ~EndsWith(mounts[i].path, Root))

TerminationPaths == {Root, PA, PAA, PM, PMA}

\* C20: copy(src, dest) reaches a result for every source and destination:
\* the recursion never goes deeper than MaxDepth directories, which is as
\* deep as a backend of MaxJournal entries can nest them.
C20_CopyTerminates ==
    \A p \in TerminationPaths, q \in TerminationPaths :
        CoreVFS_copyRec(S, p, q, MaxDepth).res # Diverges

-----------------------------------------------------------------------------
(* Calls in flight.  An async method runs from one await to the next in    *)
(* one piece; between two awaits other calls may run.  tasks holds a frame *)
(* per call that has been made and whose caller has not been resumed yet.  *)
(* A frame's id is the path of child indices from the client's call.       *)

Frame(id, op, src, dest) ==
    [id |-> id, op |-> op, src |-> src, dest |-> dest, pc |-> "called",
     names |-> <<>>, started |-> 0, res |-> [t |-> "void"]]

IsPrefixOf(i, j) == Len(i) < Len(j) /\ SubSeq(j, 1, Len(i)) = i

\* The calls frame f made, and all the calls below it
ChildrenOf(f) ==
    {c \in tasks : IsPrefixOf(f.id, c.id) /\ Len(c.id) = Len(f.id) + 1}
Descendants(f) == {c \in tasks : IsPrefixOf(f.id, c.id)}
ChildIndex(c) == c.id[Len(c.id)]

\* The frames and the backends become fs and s; a client's call that has
\* completed is recorded in last
Proceeds(s, fs) ==
    /\ mounts' = s.mounts
    /\ journal' = s.journal
    /\ content' = s.content
    /\ kind' = kind
    /\ tasks' = fs

Completes(f, out) ==
    /\ Proceeds(out.s, (tasks \ {f}) \cup
                       {[f EXCEPT !.pc = "done", !.res = out.res]})
    /\ last' = IF Len(f.id) = 1
               THEN [op |-> f.op,
                     args |-> IF f.op = "copy" THEN <<f.src, f.dest>>
                              ELSE <<f.src>>,
                     res |-> out.res]
               ELSE last

\* copy(srcPath, destPath) takes the branch with the loop over the children
IsCrossDirectoryCopy(s, srcPath, destPath) ==
    LET src == resolve(s.mounts, srcPath)
        dst == resolve(s.mounts, destPath)
    IN  /\ src.t # "error" /\ dst.t # "error"
        /\ src.driver # dst.driver
        /\ LET stats == Driver_stat(s.kind[src.driver],
                            Backend(s, src.driver), src.relativePath).res
           IN  stats.t # "null" /\ stats.isDirectory

\* The children whose copy the loop starts when it is resumed with
\* f.started children behind it: the next one.  AllChildren starts every
\* remaining child at once, as children.map(...) with Promise.all would.
AllChildren(f) == (f.started + 1)..Len(f.names)
NextChildren(f) == {f.started + 1}

\* child.descriptor.name of every child of a listing
ListedNames(res) == [k \in 1..Len(res.v) |-> res.v[k].descriptor.name]

\* The client calls copy
CopyCall(P, Q) ==
    /\ tasks = {}
    /\ \E p \in P, q \in Q : tasks' = {Frame(<<1>>, "copy", p, q)}
    /\ UNCHANGED <<mounts, kind, journal, content, last>>

\* A copy runs from its entry to its first await of a child's copy, or to
\* its return when it has no loop to run
CopyEnter ==
    \E f \in tasks :
        /\ f.op = "copy" /\ f.pc = "called"
        /\ IF IsCrossDirectoryCopy(S, f.src, f.dest)
           THEN \E ls \in {CoreVFS_listDirectory(
                               CoreVFS_createDirectory(S, f.dest).s, f.src)} :
                    /\ Proceeds(ls.s, (tasks \ {f}) \cup
                            {[f EXCEPT !.pc = "loop",
                                       !.names = ListedNames(ls.res)]})
                    /\ last' = last
           ELSE \E out \in {CoreVFS_copyRec(S, f.src, f.dest, MaxDepth)} :
                    out.res # Diverges /\ Completes(f, out)

\* The loop is resumed when the copies it awaits have completed: a throw of
\* a child ends the call, the end of the listing returns true, and otherwise
\* the next child's copy is started
CopyLoop ==
    \E f \in tasks :
        /\ f.op = "copy" /\ f.pc = "loop"
        /\ \A c \in ChildrenOf(f) : c.pc = "done"
        /\ IF \E c \in ChildrenOf(f) : c.res.t = "error"
           THEN Completes(f, Out(S,
                    (CHOOSE c \in ChildrenOf(f) : c.res.t = "error").res))
           ELSE IF f.started = Len(f.names)
           THEN Completes(f, Out(S, Bool(TRUE)))
           ELSE LET ks == NextChildren(f)
                IN  /\ Proceeds(S, (tasks \ {f})
                          \cup {[f EXCEPT !.started = Max(ks)]}
                          \cup {Frame(f.id \o <<k>>, "copy",
                                    ReplaceDoubleSlash(
                                        f.src \o <<"/">> \o f.names[k]),
                                    ReplaceDoubleSlash(
                                        f.dest \o <<"/">> \o f.names[k]))
                                : k \in ks})
                    /\ last' = last

(* SpecCopySteps: one copy from the mount at '/m' into the mount at '/',   *)
(* taken one await at a time.                                              *)

PMB == <<"/", "m", "/", "b">>
StepPaths == {PMA, PMB, PMAA}
StepSources == {PM, PMA}
StepDests == {PA}

InitCopySteps == InitWith({"InMemory", "IndexedDB"})

NextCopySteps ==
    \/ tasks = {} /\ Mount(FacadeMounts, MaxFacadeMounts)
    \/ tasks = {} /\ CreateFile(StepPaths)
    \/ tasks = {} /\ CreateDirectory(StepPaths)
    \/ CopyCall(StepSources, StepDests)
    \/ CopyEnter
    \/ CopyLoop

SpecCopySteps == InitCopySteps /\ [][NextCopySteps]_vars

\* C21: in every copy that loops over the children of a directory, the
\* copies started so far are those of the first children of the listing, in
\* its order; each of them but the last has completed, with every copy below
\* it; and at most one of them has not completed.
C21_ChildCopiesSequential ==
    \A f \in tasks :
        f.op = "copy" =>
            LET cs == ChildrenOf(f)
            IN  /\ {ChildIndex(c) : c \in cs} = 1..f.started
                /\ \A c \in cs :
                       /\ c.src = ReplaceDoubleSlash(
                              f.src \o <<"/">> \o f.names[ChildIndex(c)])
                       /\ ChildIndex(c) < f.started =>
                              /\ c.pc = "done"
                              /\ \A d \in Descendants(c) : d.pc = "done"
                /\ Cardinality({c \in cs : c.pc # "done"}) <= 1

\* The copy of a listing's second child is in flight and that of the first
\* has returned true
C21_Witness ==
    \E f \in tasks : \E c1 \in ChildrenOf(f), c2 \in ChildrenOf(f) :
        /\ f.pc = "loop" /\ f.started = 2
        /\ ChildIndex(c1) = 1 /\ c1.pc = "done" /\ c1.res = Bool(TRUE)
        /\ ChildIndex(c2) = 2 /\ c2.pc # "done"

-----------------------------------------------------------------------------
(* SpecMountPoint: mounts at '/', '/a' and '/a/b' by two drivers, between   *)
(* creations of files and directories at '/a' and '/a/b'.                  *)

MountPointInputs == {Root, PA, PAB}
MountPointPaths == {PA, PAB}

InitMountPoint == InitWith(Kinds)

NextMountPoint ==
    \/ Mount(Drivers \X MountPointInputs, MaxMounts)
    \/ CreateFile(MountPointPaths)
    \/ CreateDirectory(MountPointPaths)

SpecMountPoint == InitMountPoint /\ [][NextMountPoint]_vars

\* The directory that holds backend path rel
ParentDirectoryOf(rel) ==
    IF ParentPathOf(rel) = <<>> THEN Root ELSE ParentPathOf(rel)

\* Backend d of state s holds a directory at rel and lists it in rel's parent
HoldsDirectory(s, d, rel) ==
    LET i == FindIndex(s.journal[d], rel)
        ls == Driver_listDirectory(s.kind[d], Backend(s, d),
                                   ParentDirectoryOf(rel)).res
    IN  /\ i # 0 /\ s.journal[d][i].isDirectory
        /\ \E k \in 1..Len(ls.v) : ls.v[k].descriptor.path = rel

\* C22: mount(driver, p) with p normalized, not '/' and owned by a mount:
\* when the owner's backend held nothing at p, it holds a directory at p
\* afterwards and lists it in p's parent; when it held an entry at p, the
\* call leaves that backend as it was.
C22_MountCreatesMountPoint ==
    [][LET p == last'.args[2]
           rp == resolve(mounts, p)
       IN  (/\ last'.op = "mount"
            /\ Normalized(p) /\ p # Root
            /\ rp.t = "resolved")
           => IF FindIndex(journal[rp.driver], rp.relativePath) = 0
              THEN HoldsDirectory(SPrime, rp.driver, rp.relativePath)
              ELSE /\ journal'[rp.driver] = journal[rp.driver]
                   /\ content'[rp.driver] = content[rp.driver]]_vars

\* The last call mounted '/a/b' where a mount at '/a/b' was in the table
\* already, and the backend mounted at '/a' holds the mount point '/b'
C22_Witness ==
    /\ last.op = "mount" /\ last.args[2] = PAB
    /\ \E i \in 1..Len(mounts), j \in 1..Len(mounts), k \in 1..Len(mounts) :
           /\ i # j /\ mounts[i].path = PAB /\ mounts[j].path = PAB
           /\ mounts[k].path = PA
           /\ FindIndex(journal[mounts[k].driver], <<"/", "b">>) # 0

-----------------------------------------------------------------------------
(* SpecRace: createFile calls on the IndexedDB backend "A" that overlap.   *)
(* A call is suspended at 'await this.exists(path)' and at the await of    *)
(* its two add requests; another call may run at either.                   *)

MaxCalls == 2
RacePaths == {PA, PB}

\* A client calls createFile while fewer than MaxCalls calls have been made
CreateFileCall(P) ==
    /\ Cardinality(tasks) < MaxCalls
    /\ \E p \in P :
           tasks' = tasks \cup
               {Frame(<<Cardinality(tasks) + 1>>, "createFile", p, <<>>)}
    /\ UNCHANGED <<mounts, kind, journal, content, last>>

\* The call is resumed with the answer of exists
CreateFileExists ==
    \E f \in tasks :
        /\ f.op = "createFile" /\ f.pc = "called"
        /\ IF IDB_exists(Backend(S, "A"), f.src).res.v
           THEN Completes(f, Out(S, Null))
           ELSE /\ Proceeds(S, (tasks \ {f}) \cup
                                {[f EXCEPT !.pc = "checked"]})
                /\ last' = last

\* The call's transaction runs and the call is resumed with its outcome
CreateFileAdd ==
    \E f \in tasks :
        /\ f.op = "createFile" /\ f.pc = "checked"
        /\ Completes(f, OfDriver("A",
                            IDB_createFileAdd(Backend(S, "A"), f.src)))

InitRace == InitWith({"IndexedDB"})

NextRace ==
    \/ tasks = {} /\ DriverCreateFile(RacePaths)
    \/ tasks = {} /\ DriverCreateDirectory(RacePaths)
    \/ CreateFileCall(RacePaths)
    \/ CreateFileExists
    \/ CreateFileAdd

SpecRace == InitRace /\ [][NextRace]_vars

\* C23: of two completed createFile calls for one path that did not both
\* find the path present, one returned a VFile and the other null, and the
\* stores hold one descriptor and one content record for the path.
C23_ConcurrentCreateFile ==
    \A f \in tasks, g \in tasks :
        (/\ f.id # g.id
         /\ f.op = "createFile" /\ g.op = "createFile"
         /\ f.src = g.src
         /\ f.pc = "done" /\ g.pc = "done"
         /\ ~(f.res = Null /\ g.res = Null))
        => /\ {f.res.t, g.res.t} = {"vfile", "null"}
           /\ Cardinality({i \in 1..Len(journal["A"]) :
                              journal["A"][i].path = f.src}) = 1
           /\ f.src \in DOMAIN content["A"]

-----------------------------------------------------------------------------
(* SpecMemory: the in-memory drivers called directly, with the operations  *)
(* that change a file's bytes or move them.                                *)

DriverAppendFile(P, D) ==
    \E p \in P, data \in D :
        Returns("driver.appendFile", <<p, data>>,
            OfDriver("A",
                Driver_appendFile(kind["A"], Backend(S, "A"), p, data)))

DriverTruncate(P, L) ==
    \E p \in P, n \in L :
        Returns("driver.truncate", <<p, n>>,
            OfDriver("A", Driver_truncate(kind["A"], Backend(S, "A"), p, n)))

DriverCopy(P) ==
    \E p \in P, q \in P :
        Returns("driver.copy", <<p, q>>,
            OfDriver("A",
                Driver_copy(kind["A"], Backend(S, "A"), p, q, MaxDepth)))

DriverRemoveFile(P) ==
    \E p \in P :
        Returns("driver.removeFile", <<p>>,
            OfDriver("A", Driver_removeFile(kind["A"], Backend(S, "A"), p)))

MemoryPaths == {PA, PB}
MemoryLengths == {-1, 0, 1}

InitMemory == InitWith({"InMemory", "InMemoryOld"}) /\ kind["A"] = kind["B"]

NextMemory ==
    \/ DriverCreateFile(MemoryPaths)
    \/ DriverWriteFile(MemoryPaths, FacadeData)
    \/ DriverAppendFile(MemoryPaths, FacadeData)
    \/ DriverTruncate(MemoryPaths, MemoryLengths)
    \/ DriverRename(MemoryPaths)
    \/ DriverCopy(MemoryPaths)
    \/ DriverRemoveFile(MemoryPaths)

SpecMemory == InitMemory /\ [][NextMemory]_vars

\* C24: every file descriptor of the in-memory backend has the size that is
\* the number of bytes stored for its path.
C24_SizeIsContentLength ==
    \A i \in 1..Len(journal["A"]) :
        LET d == journal["A"][i]
        IN  ~d.isDirectory =>
                /\ d.path \in DOMAIN content["A"]
                /\ d.size = Len(content["A"][d.path])

-----------------------------------------------------------------------------
\* C25: under SpecDriver, no two descriptors in the journal of an in-memory
\* backend have the same path.
C25_JournalPathsDistinct ==
    kind["A"] \in {"InMemory", "InMemoryOld"} =>
        \A i \in 1..Len(journal["A"]), j \in 1..Len(journal["A"]) :
            journal["A"][i].path = journal["A"][j].path => i = j

-----------------------------------------------------------------------------
\* C26: when a copy between two drivers returns true, the destination
\* backend holds an entry at dest afterwards, a directory if the source was
\* a directory and a file if it was a file.
C26_CrossCopyTrueMakesDest ==
    [][LET p == last'.args[1]
           q == last'.args[2]
           rp == resolve(mounts, p)
           rq == resolve(mounts, q)
           i == FindIndex(journal[rp.driver], rp.relativePath)
           j == FindIndex(journal'[rq.driver], rq.relativePath)
       IN  (/\ last'.op = "copy"
            /\ CrossDriver(p, q)
            /\ last'.res = Bool(TRUE))
           => /\ i # 0 /\ j # 0
              /\ journal'[rq.driver][j].isDirectory
                     = journal[rp.driver][i].isDirectory
      ]_vars

====
